---- MODULE Spec2Model ----
(***************************************************************************)
(* The fixed-window Interest pipeline of ndncatchunks with its chained     *)
(* hash verification (tools/chunks/catchunks/pipeline-interests-fixed.cpp).*)
(*                                                                         *)
(* The pipeline object is a record of its fields; every method is an       *)
(* operator from the record before the call to the record after it, and    *)
(* every action of the state machine is one entry point of the pipeline    *)
(* run to completion (the face dispatches callbacks one at a time).        *)
(***************************************************************************)
EXTENDS Integers, Sequences, FiniteSets, TLC

\* ------------------------------------------------------------------ bounds
\* largest pipeline size (Options::maxPipelineSize) explored
MaxW == 3
\* segments 0..MaxSeg can be answered with Data; requests beyond only fail
MaxSeg == 2

\* ---------------------------------------------------------------- constants
\* a null shared_ptr in a window slot
NullPtr == -1
\* content carries no SignatureValue element
NoCommit == 0
\* Data carries no FinalBlockId
NoFinal == -1
\* the byte strings a SignatureValue (actual or declared) can hold
Vals == {1, 2}

\* A failed std::map lookup is dereferenced through end(): the value read is
\* indeterminate.  It reads as a null pointer, or as a wild pointer whose use
\* either faults or yields bytes that memcmp finds unequal.
UBOutcomes == {"null", "crash", "unequal"}

\* the reasons handed to onFailure
ReasonHash == "Failure hash key error"
ReasonNoFinal == "Fetching terminated but no final segment number has been found"
ReasonSegment == "Failure retrieving segment"
ReasonFetch == "fetcher reason"

VARIABLES
  started,            \* PipelineInterests::run has been called
  maxPipelineSize,    \* m_options.maxPipelineSize
  m_segmentFetchers,  \* vector<pair<shared_ptr<DataFetcher>, uint64_t>>, index 0..size-1
  fetchers,           \* the DataFetcher objects created so far, by segment number
  m_nextSegmentNo,
  m_hasFinalBlockId,
  m_lastSegmentNo,
  m_nReceived,
  m_isStopping,
  m_hasFailure,
  hash_map,           \* segment number -> SignatureValue found in its content
  hash_data,          \* segment number -> Data held until its predecessor arrives
  delivered,          \* the calls of the caller's data callback, in order
  errors,             \* the calls of the caller's failure callback, in order
  crashed,            \* the process ended in a fault or an uncaught exception
  late,               \* fetchers whose completion was already dispatched when cancel() ran
  pkt,                \* history: the responses handed to a running pipeline
  held,               \* history: the segment numbers ever inserted into hash_data
  assertionFailed,    \* the BOOST_ASSERT of line 98 found its condition false
  requested,          \* history: the segment numbers for which a fetcher was created, in order
  laterMarker         \* history: a response with another FinalBlockId came after the first

vars == <<started, maxPipelineSize, m_segmentFetchers, fetchers, m_nextSegmentNo,
          m_hasFinalBlockId, m_lastSegmentNo, m_nReceived, m_isStopping,
          m_hasFailure, hash_map, hash_data, delivered, errors, crashed, late,
          pkt, held, assertionFailed, requested, laterMarker>>

\* the pipeline object as one value
Self ==
  [maxPipelineSize |-> maxPipelineSize, m_segmentFetchers |-> m_segmentFetchers,
   fetchers |-> fetchers, m_nextSegmentNo |-> m_nextSegmentNo,
   m_hasFinalBlockId |-> m_hasFinalBlockId, m_lastSegmentNo |-> m_lastSegmentNo,
   m_nReceived |-> m_nReceived, m_isStopping |-> m_isStopping,
   m_hasFailure |-> m_hasFailure, hash_map |-> hash_map, hash_data |-> hash_data,
   delivered |-> delivered, errors |-> errors, crashed |-> crashed, late |-> late,
   held |-> held, assertionFailed |-> assertionFailed, requested |-> requested]

\* the pipeline object after a call
Becomes(s) ==
  /\ maxPipelineSize' = s.maxPipelineSize
  /\ m_segmentFetchers' = s.m_segmentFetchers
  /\ fetchers' = s.fetchers
  /\ m_nextSegmentNo' = s.m_nextSegmentNo
  /\ m_hasFinalBlockId' = s.m_hasFinalBlockId
  /\ m_lastSegmentNo' = s.m_lastSegmentNo
  /\ m_nReceived' = s.m_nReceived
  /\ m_isStopping' = s.m_isStopping
  /\ m_hasFailure' = s.m_hasFailure
  /\ hash_map' = s.hash_map
  /\ hash_data' = s.hash_data
  /\ delivered' = s.delivered
  /\ errors' = s.errors
  /\ crashed' = s.crashed
  /\ late' = s.late
  /\ held' = s.held
  /\ requested' = s.requested
  /\ assertionFailed' = s.assertionFailed

\* what is kept of a Data packet: its FinalBlockId is read once, on arrival
\* (line 167), and never from a kept copy
Stored(data) == [seg |-> data.seg, sig |-> data.sig, commit |-> data.commit]

\* std::map::erase(key)
MapErase(m, k) == [x \in (DOMAIN m) \ {k} |-> m[x]]

\* std::map::insert(pair): keeps an existing entry
MapInsert(m, k, v) == IF k \in DOMAIN m THEN m ELSE (k :> v) @@ m

\* ------------------------------------------------------------ DataFetcher
\* DataFetcher::isRunning
isRunning(s, id) == s.fetchers[id].st = "running"

\* DataFetcher::hasError
hasError(s, id) == s.fetchers[id].st = "error"

\* DataFetcher::cancel: stops a running fetcher, leaves a resolved one alone
fetcherCancel(s, id) ==
  IF isRunning(s, id) THEN [s EXCEPT !.fetchers[id].st = "stopped"] ELSE s

\* the fetchers a set of slots points to
SlotFetchers(s, slots) ==
  {s.m_segmentFetchers[i].first : i \in slots} \ {NullPtr}

\* cancel() on every fetcher of a set
RECURSIVE cancelAll(_, _)
cancelAll(s, ids) ==
  IF ids = {} THEN s
  ELSE LET id == CHOOSE x \in ids : TRUE
       IN cancelAll(fetcherCancel(s, id), ids \ {id})

\* ------------------------------------------------------ PipelineInterests
\* PipelineInterests::isStopping
isStopping(s) == s.m_isStopping

\* PipelineInterestsFixed::doCancel: cancel every fetcher, clear the vector.
\* The completions of the fetchers that were still running may already have
\* been dispatched: they are remembered in late.
doCancel(s) ==
  LET ids == SlotFetchers(s, DOMAIN s.m_segmentFetchers)
      running == {id \in ids : isRunning(s, id)}
      s1 == cancelAll(s, ids)
  IN [s1 EXCEPT !.m_segmentFetchers = <<>>, !.late = @ \cup running]

\* PipelineInterests::cancel
cancel(s) ==
  IF s.m_isStopping THEN s ELSE doCancel([s EXCEPT !.m_isStopping = TRUE])

\* PipelineInterests::onFailure
onFailure(s, reason) ==
  IF s.m_isStopping THEN s
  ELSE [cancel(s) EXCEPT !.errors = Append(@, reason)]

\* PipelineInterests::onData: count the segment and hand it to the caller
onData(s, segNo) ==
  [s EXCEPT !.m_nReceived = @ + 1, !.delivered = Append(@, segNo)]

\* PipelineInterests::allSegmentsReceived
allSegmentsReceived(s) ==
  /\ s.m_nReceived > 0
  /\ s.m_hasFinalBlockId
  /\ s.m_nReceived - 1 >= s.m_lastSegmentNo

\* ------------------------------------------------- PipelineInterestsFixed
\* the negation of the condition asserted at line 98: the slot holds a
\* fetcher and that fetcher is running
slotIsBusy(s, pipeNo) ==
  /\ pipeNo \in DOMAIN s.m_segmentFetchers
  /\ s.m_segmentFetchers[pipeNo].first # NullPtr
  /\ isRunning(s, s.m_segmentFetchers[pipeNo].first)

\* PipelineInterests::getNextSegmentNo and the three early returns of
\* fetchNextSegment: TRUE when fetchNextSegment issues a request
fetchNextSegmentIssues(s) ==
  /\ ~isStopping(s)
  /\ ~s.m_hasFailure
  /\ ~(s.m_hasFinalBlockId /\ s.m_nextSegmentNo > s.m_lastSegmentNo)

\* fetchNextSegment without the test against m_lastSegmentNo (line 77)
fetchNextSegmentNoFinalCheck(s, pipeNo) ==
  IF isStopping(s) THEN s
  ELSE IF s.m_hasFailure THEN onFailure(s, ReasonNoFinal)
  ELSE LET nextSegmentNo == s.m_nextSegmentNo
           s1 == [s EXCEPT !.m_nextSegmentNo = @ + 1]
       IN [s1 EXCEPT
            !.requested = Append(@, nextSegmentNo),
            !.assertionFailed = @ \/ slotIsBusy(s, pipeNo),
            !.fetchers = (nextSegmentNo :> [st |-> "running", pipeNo |-> pipeNo]) @@ @,
            !.m_segmentFetchers[pipeNo] =
                [first |-> nextSegmentNo, second |-> nextSegmentNo]]

\* fetchNextSegment without the return after onFailure (line 73)
fetchNextSegmentNoReturnOnFailure(s, pipeNo) ==
  IF isStopping(s) THEN s
  ELSE LET s0 == IF s.m_hasFailure THEN onFailure(s, ReasonNoFinal) ELSE s
           nextSegmentNo == s0.m_nextSegmentNo
           s1 == [s0 EXCEPT !.m_nextSegmentNo = @ + 1]
       IN IF s1.m_hasFinalBlockId /\ nextSegmentNo > s1.m_lastSegmentNo THEN s1
          ELSE [s1 EXCEPT
                 !.requested = Append(@, nextSegmentNo),
                 !.assertionFailed = @ \/ slotIsBusy(s0, pipeNo),
                 !.fetchers = (nextSegmentNo :> [st |-> "running", pipeNo |-> pipeNo]) @@ @,
                 !.m_segmentFetchers =
                     (pipeNo :> [first |-> nextSegmentNo, second |-> nextSegmentNo]) @@ @]

\* fetchNextSegment reading the counter of line 75 without advancing it
fetchNextSegmentSameNumber(s, pipeNo) ==
  IF isStopping(s) THEN s
  ELSE IF s.m_hasFailure THEN onFailure(s, ReasonNoFinal)
  ELSE LET nextSegmentNo == s.m_nextSegmentNo
       IN IF s.m_hasFinalBlockId /\ nextSegmentNo > s.m_lastSegmentNo THEN s
          ELSE [s EXCEPT
                 !.requested = Append(@, nextSegmentNo),
                 !.assertionFailed = @ \/ slotIsBusy(s, pipeNo),
                 !.fetchers = (nextSegmentNo :> [st |-> "running", pipeNo |-> pipeNo]) @@ @,
                 !.m_segmentFetchers =
                     (pipeNo :> [first |-> nextSegmentNo, second |-> nextSegmentNo]) @@ @]

\* fetchNextSegment without the test of m_hasFailure (lines 71-74)
fetchNextSegmentNoFailureCheck(s, pipeNo) ==
  IF isStopping(s) THEN s
  ELSE LET nextSegmentNo == s.m_nextSegmentNo
           s1 == [s EXCEPT !.m_nextSegmentNo = @ + 1]
       IN IF s1.m_hasFinalBlockId /\ nextSegmentNo > s1.m_lastSegmentNo THEN s1
          ELSE [s1 EXCEPT
                 !.requested = Append(@, nextSegmentNo),
                 !.assertionFailed = @ \/ slotIsBusy(s, pipeNo),
                 !.fetchers = (nextSegmentNo :> [st |-> "running", pipeNo |-> pipeNo]) @@ @,
                 !.m_segmentFetchers =
                     (pipeNo :> [first |-> nextSegmentNo, second |-> nextSegmentNo]) @@ @]

\* PipelineInterestsFixed::fetchNextSegment
fetchNextSegment(s, pipeNo) ==
  IF isStopping(s) THEN s
  ELSE IF s.m_hasFailure THEN onFailure(s, ReasonNoFinal)
  ELSE LET nextSegmentNo == s.m_nextSegmentNo
           s1 == [s EXCEPT !.m_nextSegmentNo = @ + 1]
       IN IF s1.m_hasFinalBlockId /\ nextSegmentNo > s1.m_lastSegmentNo THEN s1
          ELSE [s1 EXCEPT
                 !.requested = Append(@, nextSegmentNo),
                 !.assertionFailed = @ \/ slotIsBusy(s, pipeNo),
                 !.fetchers = (nextSegmentNo :> [st |-> "running", pipeNo |-> pipeNo]) @@ @,
                 !.m_segmentFetchers[pipeNo] =
                     [first |-> nextSegmentNo, second |-> nextSegmentNo]]

\* PipelineInterestsFixed::doRun, from loop index nRequestedSegments on
RECURSIVE doRunFrom(_, _)
doRunFrom(s, nRequestedSegments) ==
  IF nRequestedSegments >= s.maxPipelineSize THEN s
  ELSE IF fetchNextSegmentIssues(s)
       THEN doRunFrom(fetchNextSegment(s, nRequestedSegments), nRequestedSegments + 1)
       ELSE fetchNextSegment(s, nRequestedSegments)

\* doRun with the loop test <= in place of < (line 57)
RECURSIVE doRunFromOffByOne(_, _)
doRunFromOffByOne(s, nRequestedSegments) ==
  IF nRequestedSegments > s.maxPipelineSize THEN s
  ELSE IF fetchNextSegmentIssues(s)
       THEN doRunFromOffByOne(fetchNextSegment(s, nRequestedSegments),
                              nRequestedSegments + 1)
       ELSE fetchNextSegment(s, nRequestedSegments)

doRunOffByOne(s) == doRunFromOffByOne(s, 0)

\* PipelineInterestsFixed::doRun
doRun(s) == doRunFrom(s, 0)

\* lines 130-149 without the check of the held successor (lines 130-140):
\* the content's SignatureValue is recorded and nothing else
checkHeldSuccessorRecordOnly(s, data, ub) ==
  IF data.commit = NoCommit THEN s
  ELSE [s EXCEPT !.hash_map = MapInsert(@, data.seg, data.commit)]

\* handleData, lines 130-149: the Data held for the successor is checked
\* against this content, or this content's SignatureValue is recorded.
\* ub is what the lookup of an absent key in hash_data reads.
checkHeldSuccessor(s, data, ub) ==
  LET segment_no == data.seg
      record == IF data.commit = NoCommit THEN s
                ELSE [s EXCEPT !.hash_map = MapInsert(@, segment_no, data.commit)]
  IN IF DOMAIN s.hash_data = {} THEN record
     ELSE IF segment_no + 1 \in DOMAIN s.hash_data
     THEN LET cData == s.hash_data[segment_no + 1]
          IN IF cData.commit = NoCommit \/ data.commit = NoCommit
             THEN [s EXCEPT !.crashed = TRUE]     \* Block::get throws
             ELSE IF data.commit # cData.commit
             THEN onFailure(s, ReasonHash)
             ELSE onData([s EXCEPT !.hash_data = MapErase(@, segment_no + 1)], cData.seg)
     ELSE CASE ub = "null" -> record
            [] ub = "crash" -> [s EXCEPT !.crashed = TRUE]
            [] OTHER -> onFailure(s, ReasonHash)

\* lines 151-164 with the held Data also handed to the caller (line 155
\* falling through to onData)
checkAgainstPredecessorHoldAndDeliver(s, data, ub) ==
  LET segment_no == data.seg
      hold == [s EXCEPT !.hash_data = MapInsert(@, segment_no, Stored(data)),
                        !.held = @ \cup {segment_no}]
      deliver == onData([s EXCEPT !.hash_data = MapErase(@, segment_no - 1)], segment_no)
  IN IF segment_no = 0 THEN onData(s, segment_no)
     ELSE IF segment_no - 1 \in DOMAIN s.hash_map
     THEN IF data.sig # s.hash_map[segment_no - 1]
          THEN onFailure(s, ReasonHash)
          ELSE deliver
     ELSE CASE ub = "null" -> onData(hold, segment_no)
            [] ub = "crash" -> [s EXCEPT !.crashed = TRUE]
            [] OTHER -> onFailure(s, ReasonHash)

\* handleData, lines 151-164: this Data is checked against the SignatureValue
\* recorded for its predecessor, held, or (segment 0) delivered.
\* ub is what the lookup of an absent key in hash_map reads.
checkAgainstPredecessor(s, data, ub) ==
  LET segment_no == data.seg
      hold == [s EXCEPT !.hash_data = MapInsert(@, segment_no, Stored(data)),
                        !.held = @ \cup {segment_no}]
      deliver == onData([s EXCEPT !.hash_data = MapErase(@, segment_no - 1)], segment_no)
  IN IF segment_no = 0 THEN onData(s, segment_no)
     ELSE IF segment_no - 1 \in DOMAIN s.hash_map
     THEN IF data.sig # s.hash_map[segment_no - 1]
          THEN onFailure(s, ReasonHash)
          ELSE deliver
     ELSE CASE ub = "null" -> hold
            [] ub = "crash" -> [s EXCEPT !.crashed = TRUE]
            [] OTHER -> onFailure(s, ReasonHash)

\* handleData, lines 171-183: the loop over the slots once the final
\* segment number is known, from slot i on
RECURSIVE finalBlockLoop(_, _)
finalBlockLoop(s, i) ==
  IF i \notin DOMAIN s.m_segmentFetchers THEN s
  ELSE LET fetcher == s.m_segmentFetchers[i]
       IN IF fetcher.first = NullPtr THEN finalBlockLoop(s, i + 1)
          ELSE IF fetcher.second > s.m_lastSegmentNo
          THEN finalBlockLoop(fetcherCancel(s, fetcher.first), i + 1)
          ELSE IF hasError(s, fetcher.first)
          THEN onFailure(s, ReasonSegment)
          ELSE finalBlockLoop(s, i + 1)

\* lines 167-184 without the test of m_hasFinalBlockId: every FinalBlockId
\* is taken
latchFinalBlockIdEveryMarker(s, data) ==
  IF data.final # NoFinal
  THEN finalBlockLoop([s EXCEPT !.m_lastSegmentNo = data.final,
                                !.m_hasFinalBlockId = TRUE], 0)
  ELSE s

\* the loop of lines 171-183 without the cancel of lines 175-178
RECURSIVE finalBlockLoopNoCancel(_, _)
finalBlockLoopNoCancel(s, i) ==
  IF i \notin DOMAIN s.m_segmentFetchers THEN s
  ELSE LET fetcher == s.m_segmentFetchers[i]
       IN IF fetcher.first = NullPtr THEN finalBlockLoopNoCancel(s, i + 1)
          ELSE IF fetcher.second <= s.m_lastSegmentNo /\ hasError(s, fetcher.first)
          THEN onFailure(s, ReasonSegment)
          ELSE finalBlockLoopNoCancel(s, i + 1)

\* lines 167-184 with that loop
latchFinalBlockIdNoCancel(s, data) ==
  IF ~s.m_hasFinalBlockId /\ data.final # NoFinal
  THEN finalBlockLoopNoCancel([s EXCEPT !.m_lastSegmentNo = data.final,
                                        !.m_hasFinalBlockId = TRUE], 0)
  ELSE s

\* handleData, lines 167-184
latchFinalBlockId(s, data) ==
  IF ~s.m_hasFinalBlockId /\ data.final # NoFinal
  THEN finalBlockLoop([s EXCEPT !.m_lastSegmentNo = data.final,
                                !.m_hasFinalBlockId = TRUE], 0)
  ELSE s

\* lines 186-193 refilling the slot after the one whose fetcher finished
completeOrRefillNextSlot(s, pipeNo) ==
  IF allSegmentsReceived(s) THEN s
  ELSE fetchNextSegment(s, (pipeNo + 1) % s.maxPipelineSize)

\* handleData, lines 186-193
completeOrRefill(s, pipeNo) ==
  IF allSegmentsReceived(s) THEN s ELSE fetchNextSegment(s, pipeNo)

\* handleData without the isStopping test (lines 118-119)
handleDataNoStoppingCheck(s, data, pipeNo, ub1, ub2) ==
  LET s1 == checkHeldSuccessor(s, data, ub1)
  IN IF s1.crashed \/ isStopping(s1) THEN s1
     ELSE LET s2 == checkAgainstPredecessor(s1, data, ub2)
          IN IF s2.crashed \/ isStopping(s2) THEN s2
             ELSE LET s3 == latchFinalBlockId(s2, data)
                  IN IF isStopping(s3) THEN s3
                     ELSE completeOrRefill(s3, pipeNo)

\* PipelineInterestsFixed::handleData.  Every "return onFailure(...)" leaves
\* the pipeline stopping, a fault or exception leaves the process crashed.
handleData(s, data, pipeNo, ub1, ub2) ==
  IF isStopping(s) THEN s
  ELSE LET s1 == checkHeldSuccessor(s, data, ub1)
       IN IF s1.crashed \/ isStopping(s1) THEN s1
          ELSE LET s2 == checkAgainstPredecessor(s1, data, ub2)
               IN IF s2.crashed \/ isStopping(s2) THEN s2
                  ELSE LET s3 == latchFinalBlockId(s2, data)
                       IN IF isStopping(s3) THEN s3
                          ELSE completeOrRefill(s3, pipeNo)

\* handleFail, lines 207-218: the loop over the slots, from slot i on, with
\* the running value of areAllFetchersStopped
RECURSIVE failLoop(_, _, _, _)
failLoop(s, pipeNo, i, areAllFetchersStopped) ==
  IF i \notin DOMAIN s.m_segmentFetchers
  THEN [s |-> s, areAllFetchersStopped |-> areAllFetchersStopped]
  ELSE LET fetcher == s.m_segmentFetchers[i]
       IN IF fetcher.first = NullPtr
          THEN failLoop(s, pipeNo, i + 1, areAllFetchersStopped)
          ELSE IF fetcher.second > s.m_segmentFetchers[pipeNo].second
          THEN failLoop(fetcherCancel(s, fetcher.first), pipeNo, i + 1,
                        areAllFetchersStopped)
          ELSE IF isRunning(s, fetcher.first)
          THEN failLoop(s, pipeNo, i + 1, FALSE)
          ELSE failLoop(s, pipeNo, i + 1, areAllFetchersStopped)

\* the loop of lines 207-218 without the isRunning test of line 215
RECURSIVE failLoopNoRunningTest(_, _, _, _)
failLoopNoRunningTest(s, pipeNo, i, areAllFetchersStopped) ==
  IF i \notin DOMAIN s.m_segmentFetchers
  THEN [s |-> s, areAllFetchersStopped |-> areAllFetchersStopped]
  ELSE LET fetcher == s.m_segmentFetchers[i]
       IN IF fetcher.first = NullPtr
          THEN failLoopNoRunningTest(s, pipeNo, i + 1, areAllFetchersStopped)
          ELSE IF fetcher.second > s.m_segmentFetchers[pipeNo].second
          THEN failLoopNoRunningTest(fetcherCancel(s, fetcher.first), pipeNo, i + 1,
                                     areAllFetchersStopped)
          ELSE failLoopNoRunningTest(s, pipeNo, i + 1, areAllFetchersStopped)

\* handleFail with that loop
handleFailNoRunningTest(s, pipeNo) ==
  IF isStopping(s) THEN s
  ELSE IF s.m_hasFinalBlockId /\ s.m_segmentFetchers[pipeNo].second <= s.m_lastSegmentNo
  THEN onFailure(s, ReasonFetch)
  ELSE IF ~s.m_hasFinalBlockId
  THEN LET r == failLoopNoRunningTest(s, pipeNo, 0, TRUE)
       IN IF r.areAllFetchersStopped
          THEN onFailure(r.s, ReasonNoFinal)
          ELSE [r.s EXCEPT !.m_hasFailure = TRUE]
  ELSE s

\* handleFail with < for <= in the test of line 202
handleFailBelowFinalOnly(s, pipeNo) ==
  IF isStopping(s) THEN s
  ELSE IF s.m_hasFinalBlockId /\ s.m_segmentFetchers[pipeNo].second < s.m_lastSegmentNo
  THEN onFailure(s, ReasonFetch)
  ELSE IF ~s.m_hasFinalBlockId
  THEN LET r == failLoop(s, pipeNo, 0, TRUE)
       IN IF r.areAllFetchersStopped
          THEN onFailure(r.s, ReasonNoFinal)
          ELSE [r.s EXCEPT !.m_hasFailure = TRUE]
  ELSE s

\* PipelineInterestsFixed::handleFail
handleFail(s, pipeNo) ==
  IF isStopping(s) THEN s
  ELSE IF s.m_hasFinalBlockId /\ s.m_segmentFetchers[pipeNo].second <= s.m_lastSegmentNo
  THEN onFailure(s, ReasonFetch)
  ELSE IF ~s.m_hasFinalBlockId
  THEN LET r == failLoop(s, pipeNo, 0, TRUE)
       IN IF r.areAllFetchersStopped
          THEN onFailure(r.s, ReasonNoFinal)
          ELSE [r.s EXCEPT !.m_hasFailure = TRUE]
  ELSE s

\* ------------------------------------------------------------------ actions
\* the responses the network can give for a segment; the signature of
\* segment 0 is compared with nothing, one value stands for all
Packets(segNo) ==
  [seg : {segNo}, sig : IF segNo = 0 THEN {1} ELSE Vals,
   commit : {NoCommit} \cup Vals,
   final : {NoFinal} \cup (0..MaxSeg)]

\* the outcomes of the lookup hash_data.find(seg+1)->second of line 130
SuccessorLookup(segNo) ==
  IF DOMAIN hash_data # {} /\ segNo + 1 \notin DOMAIN hash_data
  THEN UBOutcomes ELSE {"null"}

\* the outcomes of the lookup hash_map.find(seg-1)->second of line 152
PredecessorLookup(segNo) ==
  IF segNo # 0 /\ segNo - 1 \notin DOMAIN hash_map
  THEN UBOutcomes ELSE {"null"}

\* the constructor: the window is sized, nothing is requested yet
Init ==
  /\ started = FALSE
  /\ maxPipelineSize \in 1..MaxW
  /\ m_segmentFetchers = [i \in 0..(maxPipelineSize - 1) |->
                            [first |-> NullPtr, second |-> 0]]
  /\ fetchers = <<>>
  /\ m_nextSegmentNo = 0
  /\ m_hasFinalBlockId = FALSE
  /\ m_lastSegmentNo = 0
  /\ m_nReceived = 0
  /\ m_isStopping = FALSE
  /\ m_hasFailure = FALSE
  /\ hash_map = <<>>
  /\ hash_data = <<>>
  /\ delivered = <<>>
  /\ errors = <<>>
  /\ crashed = FALSE
  /\ late = {}
  /\ pkt = <<>>
  /\ held = {}
  /\ requested = <<>>
  /\ assertionFailed = FALSE
  /\ laterMarker = FALSE

\* PipelineInterests::run
Run ==
  /\ ~crashed
  /\ ~started
  /\ started' = TRUE
  /\ Becomes(doRun(Self))
  /\ UNCHANGED <<pkt, laterMarker>>

\* PipelineInterests::cancel called by the owner
Cancel ==
  /\ ~crashed
  /\ Becomes(cancel(Self))
  /\ UNCHANGED <<started, pkt, laterMarker>>

\* a running fetcher receives its Data: DataFetcher stops and calls handleData
DataArrives(id) ==
  /\ ~crashed
  /\ id \in DOMAIN fetchers
  /\ id <= MaxSeg
  /\ fetchers[id].st = "running"
  /\ \E data \in Packets(id), ub1 \in SuccessorLookup(id), ub2 \in PredecessorLookup(id) :
       /\ Becomes(handleData([Self EXCEPT !.fetchers[id].st = "stopped"],
                             data, fetchers[id].pipeNo, ub1, ub2))
       /\ pkt' = (id :> Stored(data)) @@ pkt
       /\ laterMarker' = (laterMarker \/ (/\ m_hasFinalBlockId
                                           /\ data.final # NoFinal
                                           /\ data.final # m_lastSegmentNo))
  /\ UNCHANGED started

\* a running fetcher exhausts its retries: DataFetcher records the error and
\* calls handleFail
FetchFails(id) ==
  /\ ~crashed
  /\ id \in DOMAIN fetchers
  /\ fetchers[id].st = "running"
  /\ Becomes(handleFail([Self EXCEPT !.fetchers[id].st = "error"], fetchers[id].pipeNo))
  /\ UNCHANGED <<started, pkt, laterMarker>>

\* a Data completion dispatched before cancel() reaches handleData after it
LateData(id) ==
  /\ ~crashed
  /\ id \in late
  /\ id <= MaxSeg
  /\ \E data \in Packets(id), ub1 \in SuccessorLookup(id), ub2 \in PredecessorLookup(id) :
       Becomes(handleData([Self EXCEPT !.late = @ \ {id}],
                          data, fetchers[id].pipeNo, ub1, ub2))
  /\ UNCHANGED <<started, pkt, laterMarker>>

\* a failure completion dispatched before cancel() reaches handleFail after it
LateFail(id) ==
  /\ ~crashed
  /\ id \in late
  /\ Becomes(handleFail([Self EXCEPT !.late = @ \ {id}], fetchers[id].pipeNo))
  /\ UNCHANGED <<started, pkt, laterMarker>>

Next ==
  \/ Run
  \/ Cancel
  \/ \E id \in DOMAIN fetchers : DataArrives(id)
  \/ \E id \in DOMAIN fetchers : FetchFails(id)
  \/ \E id \in late : LateData(id)
  \/ \E id \in late : LateFail(id)

Spec == Init /\ [][Next]_vars

\* ------------------------------------------------------------ properties
Range(f) == {f[x] : x \in DOMAIN f}

\* the fetchers that are running
RunningFetchers == {id \in DOMAIN fetchers : fetchers[id].st = "running"}

\* how often segment n was handed to the caller
Deliveries(n) == Cardinality({i \in DOMAIN delivered : delivered[i] = n})

\* the responses to segments 0..k, and no others, were processed; each
\* signature equals the SignatureValue its predecessor's content declares;
\* the responses declared k as the final segment number
ChainVerifies(k) ==
  /\ DOMAIN pkt = 0..k
  /\ \A n \in 1..k : /\ pkt[n - 1].commit # NoCommit
                     /\ pkt[n].sig = pkt[n - 1].commit
  /\ m_hasFinalBlockId
  /\ m_lastSegmentNo = k

\* no fetcher ended in a permanent failure
NoFetchFailed == \A id \in DOMAIN fetchers : fetchers[id].st # "error"

\* C1: once the responses to segments 0..k have all been processed, their
\* chain verifies and k is the declared final segment, each of 0..k has been
\* delivered exactly once, nothing else was delivered, no error was raised
\* and the pipeline has all segments.
C1_ValidChainCompletes ==
  \A k \in 0..MaxSeg :
    (ChainVerifies(k) /\ NoFetchFailed) =>
      /\ ~crashed
      /\ errors = <<>>
      /\ Len(delivered) = k + 1
      /\ \A n \in 0..k : Deliveries(n) = 1
      /\ allSegmentsReceived(Self)

\* C2: a segment that was held in hash_data is handed to the caller only
\* after its predecessor has been handed to the caller.
C2_HeldDeliveredAfterPredecessor ==
  \A i \in DOMAIN delivered :
    (delivered[i] \in held /\ delivered[i] > 0) =>
      \E j \in 1..(i - 1) : delivered[j] = delivered[i] - 1

\* C3: when the responses to segments N-1 and N have both been processed
\* (and the process lives) and the signature of N differs from the
\* SignatureValue N-1 declares, the pipeline has raised the hash error and N
\* has not been delivered.
C3_MismatchAborts ==
  \A n \in 1..MaxSeg :
    ( /\ ~crashed
      /\ n \in DOMAIN pkt
      /\ (n - 1) \in DOMAIN pkt
      /\ pkt[n - 1].commit # NoCommit
      /\ pkt[n].sig # pkt[n - 1].commit )
    => /\ n \notin Range(delivered)
       /\ errors = <<ReasonHash>>

\* the segments handed to the caller in this step
DeliveredInStep ==
  {delivered'[i] : i \in (DOMAIN delivered') \ (DOMAIN delivered)}

\* C4: an entry leaves hash_data only in a step that delivers that segment
\* or in a step that aborts the pipeline with an error.
C4_HeldRemovedOnlyByDeliveryOrAbort ==
  [][\A n \in DOMAIN hash_data :
        n \notin DOMAIN hash_data' =>
          \/ n \in DeliveredInStep
          \/ (~m_isStopping /\ m_isStopping' /\ errors' # errors)]_vars

\* C5: the error "no final segment number has been found" is raised only by
\* a step that ends with the final segment number still unknown.
C5_NoFinalErrorOnlyWhileUnknown ==
  [][(errors' # errors /\ errors'[Len(errors')] = ReasonNoFinal)
        => ~m_hasFinalBlockId']_vars

\* C6: the running fetchers never outnumber the window.
C6_WindowBound == Cardinality(RunningFetchers) <= maxPipelineSize

\* a window of more than one slot is full again after a response was
\* delivered and its slot refilled
C6_Witness ==
  /\ maxPipelineSize > 1
  /\ Cardinality(RunningFetchers) = maxPipelineSize
  /\ m_nReceived > 0
  /\ m_nextSegmentNo > maxPipelineSize

\* C7: no segment number is handed to the caller twice.
C7_DeliveredAtMostOnce ==
  \A i, j \in DOMAIN delivered : delivered[i] = delivered[j] => i = j

\* a segment came out of hash_data and another was delivered on arrival
C7_Witness ==
  /\ \E n \in held : n \in Range(delivered)
  /\ \E n \in Range(delivered) : n \notin held /\ n > 0

\* C8: once the final segment number is latched, no fetcher is running for a
\* segment beyond it: none is issued, and those running when it is latched
\* are canceled in that step.
C8_NothingBeyondFinal ==
  m_hasFinalBlockId => \A id \in RunningFetchers : id <= m_lastSegmentNo

\* the final segment number was latched while a request beyond it was
\* out, and the pipeline goes on with a fetcher running
C8_Witness ==
  /\ m_hasFinalBlockId
  /\ ~m_isStopping
  /\ RunningFetchers # {}
  /\ \E id \in DOMAIN fetchers : id > m_lastSegmentNo /\ fetchers[id].st = "stopped"

\* C9: when the pipeline is stopping, no step changes the window, the
\* final-segment state, the failure latch, the two maps, the counters, or
\* what was handed to the caller.
C9_NothingAfterCancel ==
  [][m_isStopping =>
       UNCHANGED <<m_segmentFetchers, fetchers, m_nextSegmentNo, m_hasFinalBlockId,
                   m_lastSegmentNo, m_nReceived, m_isStopping, m_hasFailure,
                   hash_map, hash_data, delivered, errors, crashed>>]_vars

\* the owner canceled a freshly started pipeline and a completion that was
\* under way at that time has since reached its handler
C9_Witness ==
  /\ m_isStopping
  /\ pkt = <<>>
  /\ errors = <<>>
  /\ DOMAIN fetchers # {}
  /\ \A id \in DOMAIN fetchers : fetchers[id].st = "stopped"
  /\ \E id \in DOMAIN fetchers : id \notin late

\* C10: at most one error is handed to the caller; once it is, no fetcher is
\* running, none is created and nothing more is delivered.
C10_SingleFatalError ==
  /\ [](/\ Len(errors) <= 1
        /\ (errors # <<>> => RunningFetchers = {}))
  /\ [][errors # <<>> =>
          /\ errors' = errors
          /\ delivered' = delivered
          /\ DOMAIN fetchers' = DOMAIN fetchers]_vars

\* an error was raised while other fetchers were running, and a completion
\* under way at that time has since reached its handler
C10_Witness ==
  /\ errors = <<ReasonHash>>
  /\ NoFetchFailed
  /\ \E id \in DOMAIN fetchers :
       /\ fetchers[id].st = "stopped"
       /\ id \notin late
       /\ id \notin DOMAIN pkt
       /\ ~m_hasFinalBlockId

\* the segments whose response is processed in this step
ProcessedInStep == (DOMAIN pkt') \ (DOMAIN pkt)

\* C11: a segment n > 0 is delivered only after the response to n - 1 was
\* processed and declared a commitment; a response to n > 0 processed while
\* that of n - 1 has not come (and nothing else is held) is put in hash_data,
\* is not delivered and raises no integrity error.
C11_HeldUntilPredecessorKnown ==
  /\ [](\A n \in Range(delivered) :
          n > 0 => /\ (n - 1) \in DOMAIN pkt
                   /\ pkt[n - 1].commit # NoCommit)
  /\ [][\A n \in ProcessedInStep :
          (n > 0 /\ (n - 1) \notin DOMAIN pkt /\ hash_data = <<>>)
            => /\ n \in DOMAIN hash_data'
               /\ n \notin Range(delivered')
               /\ ~crashed'
               /\ (errors' = errors \/ errors'[Len(errors')] # ReasonHash)]_vars

\* C12: the final segment number, once known, stays known and keeps its
\* value; the first processed response that carries a FinalBlockId sets it.
C12_FinalSegmentSetOnce ==
  [][m_hasFinalBlockId => (m_hasFinalBlockId' /\ m_lastSegmentNo' = m_lastSegmentNo)]_vars

\* after the final segment number was set, a response carrying another
\* FinalBlockId went through handleData
C12_Witness ==
  /\ m_hasFinalBlockId
  /\ laterMarker
  /\ ~m_isStopping
  /\ ~crashed

\* the slots whose fetcher is running
RunningSlots ==
  {i \in DOMAIN m_segmentFetchers :
     /\ m_segmentFetchers[i].first # NullPtr
     /\ isRunning(Self, m_segmentFetchers[i].first)}

\* C13: no two slots hold a running fetcher for the same segment number, and
\* the segment numbers requested by doRun and by the refills are 0, 1, 2, ...
\* in this order, so none is requested twice.
C13_SegmentNumbersIssuedOnce ==
  /\ \A i, j \in RunningSlots :
       i # j => m_segmentFetchers[i].second # m_segmentFetchers[j].second
  /\ \A k \in DOMAIN requested : requested[k] = k - 1

\* the window was filled and a slot was refilled while others were running
C13_Witness ==
  /\ Len(requested) > maxPipelineSize
  /\ Cardinality(RunningSlots) >= 2

\* C14: hash_data never holds a segment n while hash_map has the commitment
\* of n - 1; the step that processes the response to n - 1 while n is held
\* hands n to the caller or ends the run (error callback or process fault).
C14_HeldResolvedEagerly ==
  /\ [](\A n \in DOMAIN hash_data : (n - 1) \notin DOMAIN hash_map)
  /\ [][\A n \in DOMAIN hash_data :
          (n - 1) \in ProcessedInStep
            => \/ n \in DeliveredInStep
               \/ (m_isStopping' /\ errors' # errors)
               \/ crashed']_vars

\* a held segment was handed to the caller when its predecessor arrived
C14_Witness ==
  \E n \in held :
    /\ n \notin DOMAIN hash_data
    /\ n \in Range(delivered)
    /\ (n - 1) \in Range(delivered)
    /\ ~crashed

\* C15: the verdict on a pair (n - 1, n) does not depend on the order of
\* arrival.  When n arrives after n - 1, lines 156-160 deliver n exactly if
\* its signature equals the commitment declared by n - 1; the claim is that
\* a segment n that arrived first and was held gets this same verdict once
\* the response to n - 1 has been processed.
C15_VerdictIndependentOfArrivalOrder ==
  \A n \in held :
    ( /\ n \in DOMAIN pkt
      /\ (n - 1) \in DOMAIN pkt
      /\ pkt[n - 1].commit # NoCommit
      /\ ~crashed )
    => (n \in Range(delivered) <=> pkt[n].sig = pkt[n - 1].commit)

\* the fetchers that end in a permanent failure in this step
FailedInStep ==
  {id \in DOMAIN fetchers : fetchers[id].st = "running" /\ fetchers'[id].st = "error"}

\* C16: when the fetch of segment s fails for good while the final segment
\* number is unknown, no fetcher for a segment above s runs afterwards; if no
\* slot with a segment below s was still running, the step raises "no final
\* segment number has been found", otherwise it sets m_hasFailure and raises
\* nothing.  So once every request has failed or was cancelled on a failure,
\* with the final segment number unknown, exactly one error has been raised.
C16_FailureBeforeFinalKnown ==
  /\ [][\A s \in FailedInStep :
          (~m_hasFinalBlockId /\ ~m_isStopping)
            => /\ \A id \in DOMAIN fetchers' : id > s => fetchers'[id].st # "running"
               /\ IF {i \in RunningSlots : m_segmentFetchers[i].second < s} = {}
                  THEN /\ errors' = Append(errors, ReasonNoFinal)
                       /\ m_isStopping'
                  ELSE /\ m_hasFailure'
                       /\ ~m_isStopping'
                       /\ errors' = errors]_vars
  /\ []( ( /\ started
           /\ ~m_hasFinalBlockId
           /\ ~crashed
           /\ RunningFetchers = {}
           /\ \E id \in DOMAIN fetchers : fetchers[id].st = "error"
           /\ ~(m_isStopping /\ errors = <<>>) )
         => Len(errors) = 1 )

\* a failure set m_hasFailure and cancelled a fetcher above it, and later the
\* last running fetcher failed too
C16_Witness ==
  /\ m_hasFailure
  /\ errors = <<ReasonNoFinal>>
  /\ pkt = <<>>
  /\ \E id, id2 \in DOMAIN fetchers :
       /\ id < id2
       /\ fetchers[id].st = "error"
       /\ fetchers[id2].st = "stopped"
  /\ Cardinality({id \in DOMAIN fetchers : fetchers[id].st = "error"}) >= 2

\* C17: when the fetch of a segment s fails for good while the final segment
\* number is known and s is not above it, the step raises the fetcher's
\* error and stops the pipeline; it creates no fetcher and delivers nothing,
\* and neither does any later step.
C17_FailureWithinKnownRange ==
  /\ [][\A s \in FailedInStep :
          (m_hasFinalBlockId /\ ~m_isStopping /\ s <= m_lastSegmentNo)
            => /\ errors' = Append(errors, ReasonFetch)
               /\ m_isStopping'
               /\ DOMAIN fetchers' = DOMAIN fetchers
               /\ delivered' = delivered]_vars
  /\ [][(errors # <<>> /\ errors[Len(errors)] = ReasonFetch)
          => /\ errors' = errors
             /\ delivered' = delivered
             /\ DOMAIN fetchers' = DOMAIN fetchers]_vars

\* the fetch of the final segment itself failed after earlier segments were
\* delivered
C17_Witness ==
  /\ errors = <<ReasonFetch>>
  /\ m_hasFinalBlockId
  /\ delivered # <<>>
  /\ m_lastSegmentNo \in DOMAIN fetchers
  /\ fetchers[m_lastSegmentNo].st = "error"

\* the fetchers that rest in a slot with a permanent failure
ErrorSlots ==
  {i \in DOMAIN m_segmentFetchers :
     /\ m_segmentFetchers[i].first # NullPtr
     /\ hasError(Self, m_segmentFetchers[i].first)}

\* C18: in the step that makes the final segment number f known, a slot in
\* error with a segment number at or below f makes the step raise "failure
\* while retrieving a segment"; when the only slots in error have segment
\* numbers above f, the step raises no error.
C18_ErrorSlotsWhenFinalBecomesKnown ==
  [][(~m_hasFinalBlockId /\ m_hasFinalBlockId')
       => LET f == m_lastSegmentNo'
              atOrBelow == {i \in ErrorSlots : m_segmentFetchers[i].second <= f}
          IN /\ atOrBelow # {} => errors' = Append(errors, ReasonSegment)
             /\ (atOrBelow = {} /\ ErrorSlots # {}) => errors' = errors]_vars

\* the pipeline's completion test holds after this step
CompleteAfterStep ==
  /\ m_nReceived' > 0
  /\ m_hasFinalBlockId'
  /\ m_nReceived' - 1 >= m_lastSegmentNo'

Completed ==
  /\ allSegmentsReceived(Self)
  /\ \A n \in 0..m_lastSegmentNo : n \in Range(delivered)

C21_RunningFetcherKeepsItsSlot ==
  /\ ~assertionFailed
  /\ \A id \in RunningFetchers :
       /\ fetchers[id].pipeNo \in DOMAIN m_segmentFetchers
       /\ m_segmentFetchers[fetchers[id].pipeNo].first = id

\* a slot whose fetcher had finished was filled with a new fetcher, now
\* running, while the fetcher of another slot was running
C21_Witness ==
  \E id, old, other \in DOMAIN fetchers :
    /\ old < id
    /\ fetchers[old].pipeNo = fetchers[id].pipeNo
    /\ fetchers[old].st = "stopped"
    /\ fetchers[id].st = "running"
    /\ fetchers[other].pipeNo # fetchers[id].pipeNo
    /\ fetchers[other].st = "running"

====
